---- MODULE Spec2Model ----
(***************************************************************************)
(* CreditScoringModel (src/utils/credit_scoring.py): the scoring model's   *)
(* in-memory fields, the pickled artifact at model_path, and the calls     *)
(* train_model, save_model, load_model, predict_credit_score and           *)
(* get_model_insights, each split at the statements that read or write     *)
(* shared state.                                                           *)
(***************************************************************************)
EXTENDS Integers, Sequences, FiniteSets, TLC

(* ----------------------------- bounds ---------------------------------- *)

\* fitting runs one behaviour may start
MaxRuns == 1
\* calls one behaviour may start when callers overlap
MaxConcCalls == 3
\* columns whose fitted coefficient is drawn freely; the others are fixed
MaxVaried == 3

(* --------------------------- fixed data -------------------------------- *)

\* CreditScoringModel instances sharing model_path; callers (sessions)
Instances == {"m1", "m2"}
Callers == {"s1", "s2"}

\* a slip in one column name: the balance under the name the bank row has
feature_columns_as_stored ==
    << "age", "is_business", "monthly_income", "monthly_expenses",
       "balance", "expense_to_income_ratio", "savings_rate",
       "overdrafts", "returned_payments", "gambling_transactions",
       "irregular_income", "existing_credit_score", "country_risk" >>

\* column order of the generated table, label column dropped (l.144-158, l.176)
feature_columns ==
    << "age", "is_business", "monthly_income", "monthly_expenses",
       "current_balance", "expense_to_income_ratio", "savings_rate",
       "overdrafts", "returned_payments", "gambling_transactions",
       "irregular_income", "existing_credit_score", "country_risk" >>

\* the names prepare_features fills in (l.35-71)
PreparedNames ==
    { "age", "is_business", "monthly_income", "monthly_expenses",
      "current_balance", "expense_to_income_ratio", "savings_rate",
      "overdrafts", "returned_payments", "gambling_transactions",
      "irregular_income", "existing_credit_score", "country_risk" }

\* LogisticRegression(random_state=42) and StandardScaler() before any fit
FreshClassifier == [fitted |-> FALSE, n |-> 0, run |-> 0]
FreshScaler == [fitted |-> FALSE, n |-> 0, names |-> << >>, run |-> 0]

\* the fields __init__ sets
FreshFields ==
    [model |-> FreshClassifier, scaler |-> FreshScaler,
     feature_names |-> << >>, is_trained |-> FALSE]

\* estimator.fit on a table with the given columns, in fitting run r
FittedClassifier(cols, r) == [fitted |-> TRUE, n |-> Len(cols), run |-> r]
FittedScaler(cols, r) ==
    [fitted |-> TRUE, n |-> Len(cols), names |-> cols, run |-> r]

(* ------------------------- the pickled file ---------------------------- *)

\* the four entries of model_data, in the order pickle writes them
Keys == 1..4

\* have: the entries whose bytes are in the file; lacks: the keys that the
\* dict pickled into a whole file does not have
NoFile ==
    [exists |-> FALSE, have |-> {}, art |-> FreshFields,
     by |-> [k \in Keys |-> "-"], lacks |-> {}]

\* open(path, 'wb'): the file exists and is empty
Truncated == [NoFile EXCEPT !.exists = TRUE]

SetEntry(art, k, a) ==
    CASE k = 1 -> [art EXCEPT !.model = a.model]
      [] k = 2 -> [art EXCEPT !.scaler = a.scaler]
      [] k = 3 -> [art EXCEPT !.feature_names = a.feature_names]
      [] k = 4 -> [art EXCEPT !.is_trained = a.is_trained]

\* one write of pickle.dump: entry k of artifact a lands at its offset
WriteEntry(f, k, a, who) ==
    [exists |-> TRUE, have |-> f.have \cup {k},
     art |-> SetEntry(f.art, k, a), by |-> [f.by EXCEPT ![k] = who],
     lacks |-> {}]

\* pickle.load succeeds when the whole stream is there
Readable(f) == f.exists /\ f.have = Keys

\* a complete file holding artifact a, written by who
FileOf(a, who) ==
    [exists |-> TRUE, have |-> Keys, art |-> a, by |-> [k \in Keys |-> who],
     lacks |-> {}]

\* artifacts an earlier process may have left at model_path (fitting run 0)
TrainedEarlier ==
    [model |-> FittedClassifier(feature_columns, 0),
     scaler |-> FittedScaler(feature_columns, 0),
     feature_names |-> feature_columns, is_trained |-> TRUE]

\* same artifact, feature_names listing two columns in the other order
Reordered ==
    [TrainedEarlier EXCEPT !.feature_names =
        << feature_columns[2], feature_columns[1] >>
            \o SubSeq(feature_columns, 3, Len(feature_columns))]

\* same artifact, feature_names one entry shorter than the coefficients
Shortened ==
    [TrainedEarlier EXCEPT !.feature_names =
        SubSeq(feature_columns, 1, Len(feature_columns) - 1)]

\* a whole pickle of a dict left by other code, without the key of entry k
Lacking(a, k) ==
    [FileOf(SetEntry(a, k, FreshFields), "earlier") EXCEPT !.lacks = {k}]

InitialStores ==
    { NoFile, FileOf(TrainedEarlier, "earlier"), FileOf(Reordered, "earlier"),
      FileOf(Shortened, "earlier") }

(* --------------------------- pure helpers ------------------------------ *)

\* customer_data values handed to predict_credit_score
Profiles == {"mapping", "business", "not_a_mapping"}
IsMapping(p) == p \in {"mapping", "business"}

\* a slip in the scale factor: 300 + p * 560
ScoreOfWide(p) == (300 * 1000 + p * 560) \div 1000

\* a slip in the base: 350 + p * 550
ScoreOfShifted(p) == (350 * 1000 + p * 550) \div 1000

\* int(np.round(300 + p * 550)), p in thousandths; np.round rounds half to even
ScoreOf(p) ==
    LET x == 300 * 1000 + p * 550
        q == x \div 1000
        r == x % 1000
    IN  IF r > 500 THEN q + 1
        ELSE IF r < 500 THEN q
        ELSE IF q % 2 = 0 THEN q ELSE q + 1

\* a slip at the upper threshold: > 740 for >= 740
_get_risk_level_above(credit_score) ==
    IF credit_score > 740 THEN "Low Risk"
    ELSE IF credit_score >= 670 THEN "Medium-Low Risk"
    ELSE IF credit_score >= 580 THEN "Medium Risk"
    ELSE "High Risk"

_get_risk_level(credit_score) ==
    IF credit_score >= 740 THEN "Low Risk"
    ELSE IF credit_score >= 670 THEN "Medium-Low Risk"
    ELSE IF credit_score >= 580 THEN "Medium Risk"
    ELSE "High Risk"

Range(s) == {s[k] : k \in 1..Len(s)}

(* --------------------------- Python values ----------------------------- *)

\* a value: its type, and what it holds under the field of that type: a
\* number (num), a quotient of two numbers (num over den), a bool (num 1 or
\* 0), a str (text), a list (num, its length), a dict (items, a function from
\* its keys)
PyNone == [type |-> "None", num |-> 0, den |-> 1, text |-> "", items |-> << >>]
Num(n) == [PyNone EXCEPT !.type = "number", !.num = n]
Str(x) == [PyNone EXCEPT !.type = "str", !.text = x]
Bool(b) == [PyNone EXCEPT !.type = "bool", !.num = IF b THEN 1 ELSE 0]
List(n) == [PyNone EXCEPT !.type = "list", !.num = n]
Dict(f) == [PyNone EXCEPT !.type = "dict", !.items = f]
Quotient(n, d) == [PyNone EXCEPT !.type = "quotient", !.num = n, !.den = d]

EmptyDict == Dict(<< >>)

\* a slip: None passes for a dict without entries
IsDictOrNone(x) == x.type \in {"dict", "None"}

IsDict(x) == x.type = "dict"

\* d.get(key, default) on a dict d
Get(d, key, default) == IF key \in DOMAIN d.items THEN d.items[key] ELSE default

\* a == b
Eq(a, b) == a = b

\* the truth value `if x` takes
Truthy(x) ==
    CASE x.type = "None" -> FALSE
      [] x.type = "bool" -> x.num = 1
      [] x.type = "number" -> x.num # 0
      [] x.type = "str" -> x.text # ""
      [] x.type = "list" -> x.num # 0
      [] x.type = "dict" -> DOMAIN x.items # {}
      [] OTHER -> TRUE

\* how a function ends: it raises, or it gives a value
Raises(e) == [raised |-> e, value |-> PyNone]
Gives(x) == [raised |-> "-", value |-> x]

\* the risk_indicators texts found in bank_statements rows: what json.dumps
\* writes for a customer (database.py l.231-236), and texts that are not that
RiskText == "{\"overdrafts\": 2, \"returned_payments\": 1, \"gambling_transactions\": true, \"irregular_income\": false}"
RiskTextEmpty == "{}"
RiskTextList == "[2, 1]"
RiskTextNull == "null"
RiskTextCut == "{\"overdrafts\": 2, "

\* json.loads on those texts: the decoded value, or JSONDecodeError
json_loads(text) ==
    CASE text = RiskText ->
            Gives(Dict([overdrafts |-> Num(2), returned_payments |-> Num(1),
                        gambling_transactions |-> Bool(TRUE),
                        irregular_income |-> Bool(FALSE)]))
      [] text = RiskTextEmpty -> Gives(EmptyDict)
      [] text = RiskTextList -> Gives(List(2))
      [] text = RiskTextNull -> Gives(PyNone)
      [] OTHER -> Raises("JSONDecodeError")

(* --------------------------- prepare_features -------------------------- *)

\* a / b on two numbers
Divide(a, b) ==
    IF b = 0 THEN Raises("ZeroDivisionError") ELSE Gives(Quotient(a, b))

\* a slip in the test: >= 0 for > 0
RatioFeaturesFromZero(monthly_income, monthly_expenses) ==
    IF monthly_income.type # "number" THEN Raises("TypeError")
    ELSE IF monthly_income.num >= 0
    THEN IF monthly_expenses.type # "number" THEN Raises("TypeError")
         ELSE LET ratio == Divide(monthly_expenses.num, monthly_income.num)
                  rate == Divide(monthly_income.num - monthly_expenses.num,
                                 monthly_income.num)
              IN  IF ratio.raised # "-" THEN ratio
                  ELSE IF rate.raised # "-" THEN rate
                  ELSE Gives([expense_to_income_ratio |-> ratio.value,
                              savings_rate |-> rate.value])
    ELSE Gives([expense_to_income_ratio |-> Num(1), savings_rate |-> Num(0)])

\* l.44-50: the two ratio features; `> 0`, `-` and `/` raise TypeError on a
\* value that is not a number
RatioFeatures(monthly_income, monthly_expenses) ==
    IF monthly_income.type # "number" THEN Raises("TypeError")
    ELSE IF monthly_income.num > 0
    THEN IF monthly_expenses.type # "number" THEN Raises("TypeError")
         ELSE LET ratio == Divide(monthly_expenses.num, monthly_income.num)
                  rate == Divide(monthly_income.num - monthly_expenses.num,
                                 monthly_income.num)
              IN  IF ratio.raised # "-" THEN ratio
                  ELSE IF rate.raised # "-" THEN rate
                  ELSE Gives([expense_to_income_ratio |-> ratio.value,
                              savings_rate |-> rate.value])
    ELSE Gives([expense_to_income_ratio |-> Num(1), savings_rate |-> Num(0)])

\* l.53-55: risk_data; a str is decoded, anything else is taken as it is
RiskData(bank_data) ==
    LET risk_data == Get(bank_data, "risk_indicators", EmptyDict)
    IN  IF risk_data.type = "str" THEN json_loads(risk_data.text)
        ELSE Gives(risk_data)

\* l.57-60: the four risk features; risk_data.get raises AttributeError on a
\* value that is not a dict
RiskFeatures(risk_data) ==
    IF ~IsDict(risk_data) THEN Raises("AttributeError")
    ELSE Gives(
        [overdrafts |-> Get(risk_data, "overdrafts", Num(0)),
         returned_payments |-> Get(risk_data, "returned_payments", Num(0)),
         gambling_transactions |->
            IF Truthy(Get(risk_data, "gambling_transactions", Bool(FALSE)))
            THEN Num(1) ELSE Num(0),
         irregular_income |->
            IF Truthy(Get(risk_data, "irregular_income", Bool(FALSE)))
            THEN Num(1) ELSE Num(0)])

\* l.63-64: credit_data.get('score', 650) if credit_data else 650
ExistingCreditScore(customer_data) ==
    LET credit_data == Get(customer_data, "credit_score", EmptyDict)
    IN  IF ~Truthy(credit_data) THEN Gives(Num(650))
        ELSE IF ~IsDict(credit_data) THEN Raises("AttributeError")
        ELSE Gives(Get(credit_data, "score", Num(650)))

\* l.67-70: the weights, in hundredths
country_risk_map ==
    [Germany |-> 10, France |-> 15, Italy |-> 20, Spain |-> 25, Poland |-> 30,
     Netherlands |-> 5]

\* l.71: country_risk_map.get(customer_data.get('country', 'Germany'), 0.2);
\* a list or dict as key raises TypeError (unhashable)
CountryRisk(customer_data) ==
    LET country == Get(customer_data, "country", Str("Germany"))
    IN  IF country.type \in {"list", "dict"} THEN Raises("TypeError")
        ELSE IF country.type = "str" /\ country.text \in DOMAIN country_risk_map
        THEN Gives(Num(country_risk_map[country.text]))
        ELSE Gives(Num(20))

\* l.28-73: the statements in their order; the first that raises ends the
\* call.  The value given is the features dict.
prepare_features(customer_data) ==
    IF ~IsDict(customer_data) THEN Raises("AttributeError")
    ELSE
    LET age == Get(customer_data, "age", Num(35))
        is_business ==
            IF Eq(Get(customer_data, "customer_type", PyNone), Str("business"))
            THEN Num(1) ELSE Num(0)
        bank_data == Get(customer_data, "bank_statement", EmptyDict)
    IN
    IF ~IsDict(bank_data) THEN Raises("AttributeError")
    ELSE
    LET monthly_income == Get(bank_data, "monthly_income", Num(0))
        monthly_expenses == Get(bank_data, "monthly_expenses", Num(0))
        current_balance == Get(bank_data, "balance", Num(0))
        ratios == RatioFeatures(monthly_income, monthly_expenses)
        risk_data == RiskData(bank_data)
        risks == RiskFeatures(risk_data.value)
        existing == ExistingCreditScore(customer_data)
        country_risk == CountryRisk(customer_data)
    IN
    IF ratios.raised # "-" THEN Raises(ratios.raised)
    ELSE IF risk_data.raised # "-" THEN Raises(risk_data.raised)
    ELSE IF risks.raised # "-" THEN Raises(risks.raised)
    ELSE IF existing.raised # "-" THEN Raises(existing.raised)
    ELSE IF country_risk.raised # "-" THEN Raises(country_risk.raised)
    ELSE Gives(Dict(
        [age |-> age,
         is_business |-> is_business,
         monthly_income |-> monthly_income,
         monthly_expenses |-> monthly_expenses,
         current_balance |-> current_balance,
         expense_to_income_ratio |-> ratios.value.expense_to_income_ratio,
         savings_rate |-> ratios.value.savings_rate,
         overdrafts |-> risks.value.overdrafts,
         returned_payments |-> risks.value.returned_payments,
         gambling_transactions |-> risks.value.gambling_transactions,
         irregular_income |-> risks.value.irregular_income,
         existing_credit_score |-> existing.value,
         country_risk |-> country_risk.value]))

\* the customer_data behind each of Profiles: a mapping without entries, a
\* mapping that says business, None
ProfileValue(p) ==
    CASE p = "mapping" -> EmptyDict
      [] p = "business" -> Dict("customer_type" :> Str("business"))
      [] OTHER -> PyNone

\* l.242-245: one entry per name, features.get(feature_name, 0)
feature_vector(names, features) ==
    [k \in 1..Len(names) |-> Get(features, names[k], Num(0)).num]

\* the probabilities a fitted classifier is seen to give, in thousandths
ProbGrid == << 0, 508, 509, 799, 800, 1000 >>

RECURSIVE Weighted(_, _, _, _)
Weighted(m, sc, x, k) ==
    IF k = 0 THEN 0
    ELSE (k + m.run) * (x[k] + sc.run) + Weighted(m, sc, x, k - 1)

\* l.249-252: scaler.transform, then model.predict_proba(...)[0, 1]: a number
\* that the scaler's parameters, the classifier's parameters and the vector,
\* entry by entry in its order, determine.  The library's arithmetic is not
\* reproduced: parameters stand as the fitting run they came from, and the
\* weighted sum is folded onto the grid.
predict_proba(m, sc, x) ==
    ProbGrid[((Weighted(m, sc, x, Len(x)) + 5) % Len(ProbGrid)) + 1]

(* ---------------------------- get_customer_data ------------------------ *)

\* ai_utils.py l.225-254: the rows fetchone() gave (a dict of the row's
\* columns, or None), put under four keys; None when there is no customer row
get_customer_data(customer, credit_score, bank_statement, kyc_rows) ==
    IF ~Truthy(customer) THEN PyNone
    ELSE Dict([customer |-> customer,
               kyc_data |-> List(kyc_rows),
               credit_score |->
                    IF Truthy(credit_score) THEN credit_score ELSE PyNone,
               bank_statement |->
                    IF Truthy(bank_statement) THEN bank_statement ELSE PyNone])

(* ------------------------------ state ---------------------------------- *)

VARIABLES
    inst,       \* instance -> its model, scaler, feature_names, is_trained
    file,       \* the file at model_path
    pc,         \* caller -> the statement it is at
    frame,      \* caller -> the locals of its running call
    ret,        \* caller -> how its last call ended
    runs,       \* fitting runs started
    calls,      \* calls started
    lastSaved,  \* the artifact of the last save_model that completed, and
                \* whether it replaced a different saved artifact
    scored,     \* where predictions are compared: per instance, the first
                \* ScoreResult returned since the last training call and
                \* its profile, the other profiles scored since, and
                \* whether the first profile was scored again after them
    calc        \* a function that touches no field of the model, applied on
                \* its own: its arguments and what it gave

vars == << inst, file, pc, frame, ret, runs, calls, lastSaved, scored, calc >>

NoArtifact == [saved |-> FALSE, art |-> FreshFields, replaced |-> FALSE]

NoResult == [kind |-> "-", credit_score |-> 0, probability |-> 0,
             risk_level |-> "-", features |-> {}, total_features |-> 0]

NoRet == [op |-> "-", i |-> "-", outcome |-> "-", value |-> NoResult]

\* no ScoreResult returned yet; no record is kept
NoScore ==
    [profile |-> "-", value |-> NoResult, between |-> {}, again |-> FALSE]
Unwatched == [NoScore EXCEPT !.profile = "unwatched"]

\* no function is being applied on its own
NoCalc == [fn |-> "-"]

IdleFrame ==
    [op |-> "-", i |-> "m1", retrain |-> FALSE, profile |-> "mapping",
     stack |-> << >>, buf |-> FreshFields, wdata |-> FreshFields, woff |-> 0,
     run |-> 0, names |-> << >>, scaled_by |-> << >>, prob |-> 0,
     pre |-> FreshFields, read |-> "-", read_by |-> [k \in Keys |-> "-"],
     fitted |-> FALSE, was_trained |-> FALSE, lacks |-> {}]

Init ==
    /\ inst = [i \in Instances |-> FreshFields]
    /\ file \in InitialStores
    /\ pc = [t \in Callers |-> "idle"]
    /\ frame = [t \in Callers |-> IdleFrame]
    /\ ret = [t \in Callers |-> NoRet]
    /\ runs = 0
    /\ calls = 0
    /\ lastSaved = NoArtifact
    /\ scored = [i \in Instances |-> Unwatched]
    /\ calc = NoCalc

(* ------------------------- call and return ----------------------------- *)

\* A caller starts a call when it has none running.  Without overlap a call
\* starts only when no other call is running (section 5 of the design: one
\* call runs to completion before the next).
Begin(t, overlap) ==
    /\ pc[t] \in {"idle", "done"}
    /\ IF overlap
       THEN calls < MaxConcCalls
       ELSE \A u \in Callers \ {t} : pc[u] \in {"idle", "done"}

Enter(t, overlap, op, i, label, retrain, profile) ==
    /\ pc' = [u \in Callers |->
                IF u = t THEN label ELSE IF overlap THEN pc[u] ELSE "idle"]
    /\ frame' = [u \in Callers |->
                IF u = t
                THEN [IdleFrame EXCEPT !.op = op, !.i = i, !.retrain = retrain,
                                       !.profile = profile, !.pre = inst[i],
                                       !.was_trained = inst[i].is_trained]
                ELSE IF overlap THEN frame[u] ELSE IdleFrame]
    /\ ret' = [u \in Callers |->
                IF u = t \/ ~overlap THEN NoRet ELSE ret[u]]
    /\ calls' = IF overlap THEN calls + 1 ELSE calls
    /\ scored' = IF /\ scored[i] # Unwatched
                   /\ \/ op = "train_model"
                      \/ (op = "predict_credit_score" /\ ~inst[i].is_trained)
                THEN [scored EXCEPT ![i] = NoScore]
                ELSE scored
    /\ calc' = calc

\* the locals of the functions left are gone; what the call read stays on
\* record (names, scaled_by, buf, read, read_by, fitted, pre, was_trained)
Unwound(fr) ==
    [fr EXCEPT !.stack = << >>, !.wdata = FreshFields, !.woff = 0, !.run = 0]

\* the outermost function returns value to the caller
Finish(t, fr, value) ==
    /\ pc' = [pc EXCEPT ![t] = "done"]
    /\ frame' = [frame EXCEPT ![t] = Unwound(fr)]
    /\ ret' = [ret EXCEPT ![t] =
                 [op |-> fr.op, i |-> fr.i, outcome |-> "returned",
                  value |-> value]]
    /\ scored' =
          IF value.kind # "ScoreResult" \/ scored[fr.i] = Unwatched
          THEN scored
          ELSE IF scored[fr.i] = NoScore
          THEN [scored EXCEPT ![fr.i] =
                  [NoScore EXCEPT !.profile = fr.profile, !.value = value]]
          ELSE IF scored[fr.i].profile = fr.profile
          THEN [scored EXCEPT ![fr.i].again = scored[fr.i].between # {}]
          ELSE [scored EXCEPT ![fr.i].between = @ \cup {fr.profile}]
    /\ calc' = calc

\* an exception leaves every function on the stack: none of them catches
Throw(t, fr) ==
    /\ pc' = [pc EXCEPT ![t] = "done"]
    /\ frame' = [frame EXCEPT ![t] = Unwound(fr)]
    /\ ret' = [ret EXCEPT ![t] =
                 [op |-> fr.op, i |-> fr.i, outcome |-> "raised",
                  value |-> NoResult]]
    /\ scored' = scored
    /\ calc' = calc

\* a function returns None: to the statement after its call, or to the caller
ReturnNone(t, fr) ==
    IF fr.stack = << >>
    THEN Finish(t, fr, [NoResult EXCEPT !.kind = "None"])
    ELSE /\ pc' = [pc EXCEPT ![t] = Head(fr.stack)]
         /\ frame' = [frame EXCEPT ![t] = [fr EXCEPT !.stack = Tail(fr.stack)]]
         /\ ret' = ret
         /\ scored' = scored
         /\ calc' = calc

Step(t, fr, label) ==
    /\ pc' = [pc EXCEPT ![t] = label]
    /\ frame' = [frame EXCEPT ![t] = fr]
    /\ ret' = ret
    /\ scored' = scored
    /\ calc' = calc

CallFn(t, fr, label, back) ==
    Step(t, [fr EXCEPT !.stack = << back >> \o fr.stack], label)

(* ----------------------------- train_model ----------------------------- *)

CallTrain(t, overlap) ==
    /\ Begin(t, overlap)
    /\ \E i \in Instances, retrain \in BOOLEAN :
          Enter(t, overlap, "train_model", i, "T168", retrain, "mapping")
    /\ UNCHANGED << inst, file, runs, lastSaved >>

\* l.168-170: if os.path.exists(self.model_path) and not retrain: load, return
T168(t) ==
    /\ pc[t] = "T168"
    /\ IF file.exists /\ ~frame[t].retrain
       THEN CallFn(t, frame[t], "L223", "T170")
       ELSE Step(t, frame[t], "T173")
    /\ UNCHANGED << inst, file, runs, calls, lastSaved >>

\* a slip: the model just loaded is written back
T170Saves(t) ==
    /\ pc[t] = "T170"
    /\ CallFn(t, frame[t], "S209", "T204")
    /\ UNCHANGED << inst, file, runs, calls, lastSaved >>

\* l.170: return, after load_model
T170(t) ==
    /\ pc[t] = "T170"
    /\ ReturnNone(t, frame[t])
    /\ UNCHANGED << inst, file, runs, calls, lastSaved >>

\* l.173-178: generate the table, take its columns
T173(t) ==
    /\ pc[t] = "T173"
    /\ runs < MaxRuns
    /\ runs' = runs + 1
    /\ Step(t, [frame[t] EXCEPT !.run = runs + 1, !.fitted = TRUE], "T180")
    /\ UNCHANGED << inst, file, calls, lastSaved >>

\* a slip: the flag is set as soon as the columns are known
T180SetsTrained(t) ==
    /\ pc[t] = "T180"
    /\ inst' = [inst EXCEPT ![frame[t].i].feature_names = feature_columns,
                            ![frame[t].i].is_trained = TRUE]
    /\ Step(t, frame[t], "T188")
    /\ UNCHANGED << file, runs, calls, lastSaved >>

\* l.180: self.feature_names = feature_columns
T180(t) ==
    /\ pc[t] = "T180"
    /\ inst' = [inst EXCEPT ![frame[t].i].feature_names = feature_columns]
    /\ Step(t, frame[t], "T188")
    /\ UNCHANGED << file, runs, calls, lastSaved >>

\* l.183-189: split, then self.scaler.fit_transform: the scaler object is refitted
T188(t) ==
    /\ pc[t] = "T188"
    /\ inst' = [inst EXCEPT ![frame[t].i].scaler =
                   FittedScaler(feature_columns, frame[t].run)]
    /\ Step(t, frame[t], "T192")
    /\ UNCHANGED << file, runs, calls, lastSaved >>

\* l.192: self.model.fit: the classifier object is refitted
T192(t) ==
    /\ pc[t] = "T192"
    /\ inst' = [inst EXCEPT ![frame[t].i].model =
                   FittedClassifier(feature_columns, frame[t].run)]
    /\ Step(t, frame[t], "T195")
    /\ UNCHANGED << file, runs, calls, lastSaved >>

\* l.195-200: evaluate and print
T195(t) ==
    /\ pc[t] = "T195"
    /\ Step(t, frame[t], "T202")
    /\ UNCHANGED << inst, file, runs, calls, lastSaved >>

\* a slip: save_model is called before the flag is set
T202SavesFirst(t) ==
    /\ pc[t] = "T202"
    /\ CallFn(t, frame[t], "S209", "T204")
    /\ UNCHANGED << inst, file, runs, calls, lastSaved >>

\* l.202-203: self.is_trained = True; self.save_model()
T202(t) ==
    /\ pc[t] = "T202"
    /\ inst' = [inst EXCEPT ![frame[t].i].is_trained = TRUE]
    /\ CallFn(t, frame[t], "S209", "T204")
    /\ UNCHANGED << file, runs, calls, lastSaved >>

\* train_model ends after save_model
T204(t) ==
    /\ pc[t] = "T204"
    /\ ReturnNone(t, frame[t])
    /\ UNCHANGED << inst, file, runs, calls, lastSaved >>

(* ----------------------------- save_model ------------------------------ *)

CallSave(t, overlap) ==
    /\ Begin(t, overlap)
    /\ \E i \in Instances :
          Enter(t, overlap, "save_model", i, "S209", FALSE, "mapping")
    /\ UNCHANGED << inst, file, runs, lastSaved >>

\* l.209-214: model_data collects the four fields; they are pickled as they
\* are here (no other statement of the same call changes them before l.217)
S209(t) ==
    /\ pc[t] = "S209"
    /\ Step(t, [frame[t] EXCEPT !.wdata = inst[frame[t].i], !.woff = 0], "S216")
    /\ UNCHANGED << inst, file, runs, calls, lastSaved >>

\* l.216: open(self.model_path, 'wb') truncates
S216(t) ==
    /\ pc[t] = "S216"
    /\ file' = Truncated
    /\ Step(t, frame[t], "S217")
    /\ UNCHANGED << inst, runs, calls, lastSaved >>

\* l.217: pickle.dump writes the entries one after the other at the writer's
\* own offset; the with block closes the file after the last one
S217(t) ==
    /\ pc[t] = "S217"
    /\ LET k == frame[t].woff + 1
           fr == [frame[t] EXCEPT !.woff = k]
       IN  /\ file' = WriteEntry(file, k, frame[t].wdata, t)
           /\ IF k = 4
              THEN /\ ReturnNone(t, fr)
                   /\ lastSaved' =
                        [saved |-> TRUE, art |-> frame[t].wdata,
                         replaced |-> lastSaved.saved
                                        /\ lastSaved.art # frame[t].wdata]
              ELSE /\ Step(t, fr, "S217")
                   /\ UNCHANGED lastSaved
    /\ UNCHANGED << inst, runs, calls >>

(* ----------------------------- load_model ------------------------------ *)

CallLoad(t, overlap) ==
    /\ Begin(t, overlap)
    /\ \E i \in Instances :
          Enter(t, overlap, "load_model", i, "L223", FALSE, "mapping")
    /\ UNCHANGED << inst, file, runs, lastSaved >>

\* a slip: with no file, load_model marks the instance untrained
L223Resets(t) ==
    /\ pc[t] = "L223"
    /\ IF file.exists
       THEN Step(t, frame[t], "L225") /\ UNCHANGED inst
       ELSE /\ ReturnNone(t, [frame[t] EXCEPT !.read = "absent"])
            /\ inst' = [inst EXCEPT ![frame[t].i].is_trained = FALSE]
    /\ UNCHANGED << file, runs, calls, lastSaved >>

\* l.223: if os.path.exists(self.model_path): ... (else fall off the end)
L223(t) ==
    /\ pc[t] = "L223"
    /\ IF file.exists
       THEN Step(t, frame[t], "L225")
       ELSE ReturnNone(t, [frame[t] EXCEPT !.read = "absent"])
    /\ UNCHANGED << inst, file, runs, calls, lastSaved >>

\* l.224-225: open and pickle.load; a stream that is not whole raises
L225(t) ==
    /\ pc[t] = "L225"
    /\ IF Readable(file)
       THEN Step(t, [frame[t] EXCEPT !.buf = file.art, !.read = "ok",
                                     !.read_by = file.by,
                                     !.lacks = file.lacks], "L227")
       ELSE Throw(t, [frame[t] EXCEPT !.read = "unreadable"])
    /\ UNCHANGED << inst, file, runs, calls, lastSaved >>

\* l.227: self.model = model_data['model']; KeyError without the key
L227(t) ==
    /\ pc[t] = "L227"
    /\ IF 1 \in frame[t].lacks
       THEN Throw(t, frame[t]) /\ UNCHANGED inst
       ELSE /\ inst' = [inst EXCEPT ![frame[t].i].model = frame[t].buf.model]
            /\ Step(t, frame[t], "L228")
    /\ UNCHANGED << file, runs, calls, lastSaved >>

\* l.228: self.scaler = model_data['scaler']; KeyError without the key
L228(t) ==
    /\ pc[t] = "L228"
    /\ IF 2 \in frame[t].lacks
       THEN Throw(t, frame[t]) /\ UNCHANGED inst
       ELSE /\ inst' = [inst EXCEPT ![frame[t].i].scaler = frame[t].buf.scaler]
            /\ Step(t, frame[t], "L229")
    /\ UNCHANGED << file, runs, calls, lastSaved >>

\* a slip: load_model leaves self.feature_names as it was
L229Skips(t) ==
    /\ pc[t] = "L229"
    /\ Step(t, frame[t], "L230")
    /\ UNCHANGED << inst, file, runs, calls, lastSaved >>

\* l.229: self.feature_names = model_data['feature_names']; KeyError without
\* the key
L229(t) ==
    /\ pc[t] = "L229"
    /\ IF 3 \in frame[t].lacks
       THEN Throw(t, frame[t]) /\ UNCHANGED inst
       ELSE /\ inst' = [inst EXCEPT ![frame[t].i].feature_names =
                           frame[t].buf.feature_names]
            /\ Step(t, frame[t], "L230")
    /\ UNCHANGED << file, runs, calls, lastSaved >>

\* a slip: a load that got this far marks the instance trained
L230SetsTrue(t) ==
    /\ pc[t] = "L230"
    /\ IF 4 \in frame[t].lacks
       THEN Throw(t, frame[t]) /\ UNCHANGED inst
       ELSE /\ inst' = [inst EXCEPT ![frame[t].i].is_trained = TRUE]
            /\ ReturnNone(t, frame[t])
    /\ UNCHANGED << file, runs, calls, lastSaved >>

\* l.230: self.is_trained = model_data['is_trained']; KeyError without the
\* key
L230(t) ==
    /\ pc[t] = "L230"
    /\ IF 4 \in frame[t].lacks
       THEN Throw(t, frame[t]) /\ UNCHANGED inst
       ELSE /\ inst' = [inst EXCEPT ![frame[t].i].is_trained =
                           frame[t].buf.is_trained]
            /\ ReturnNone(t, frame[t])
    /\ UNCHANGED << file, runs, calls, lastSaved >>

(* ------------------------- predict_credit_score ------------------------ *)

CallPredict(t, overlap) ==
    /\ Begin(t, overlap)
    /\ \E i \in Instances, profile \in Profiles :
          Enter(t, overlap, "predict_credit_score", i, "P236", FALSE, profile)
    /\ UNCHANGED << inst, file, runs, lastSaved >>

\* l.236-237: if not self.is_trained: self.train_model()
P236(t) ==
    /\ pc[t] = "P236"
    /\ IF ~inst[frame[t].i].is_trained
       THEN CallFn(t, [frame[t] EXCEPT !.retrain = FALSE], "T168", "P240")
       ELSE Step(t, frame[t], "P240")
    /\ UNCHANGED << inst, file, runs, calls, lastSaved >>

\* l.240-245: prepare_features (customer_data.get raises on a non-mapping),
\* then one vector entry per name of self.feature_names, in that order
P240(t) ==
    /\ pc[t] = "P240"
    /\ IF prepare_features(ProfileValue(frame[t].profile)).raised = "-"
       THEN Step(t, [frame[t] EXCEPT !.names = inst[frame[t].i].feature_names],
                 "P249")
       ELSE Throw(t, frame[t])
    /\ UNCHANGED << inst, file, runs, calls, lastSaved >>

\* a slip: fit_transform for transform, the scaler is refitted on the vector
P249Refits(t) ==
    /\ pc[t] = "P249"
    /\ LET sc == inst[frame[t].i].scaler
           w == Len(frame[t].names)
       IN  IF sc.fitted /\ w > 0 /\ w = sc.n
           THEN /\ Step(t, [frame[t] EXCEPT !.scaled_by = sc.names], "P252")
                /\ inst' = [inst EXCEPT ![frame[t].i].scaler =
                               FittedScaler(frame[t].names, sc.run + 1)]
           ELSE Throw(t, frame[t]) /\ UNCHANGED inst
    /\ UNCHANGED << file, runs, calls, lastSaved >>

\* l.248-249: self.scaler.transform raises NotFittedError on an unfitted
\* scaler and ValueError when the vector has no column or not the fitted number
P249(t) ==
    /\ pc[t] = "P249"
    /\ LET sc == inst[frame[t].i].scaler
           w == Len(frame[t].names)
       IN  IF sc.fitted /\ w > 0 /\ w = sc.n
           THEN Step(t, [frame[t] EXCEPT !.scaled_by = sc.names], "P252")
           ELSE Throw(t, frame[t])
    /\ UNCHANGED << inst, file, runs, calls, lastSaved >>

\* l.252: self.model.predict_proba raises on an unfitted classifier and on a
\* vector that has not the fitted number of columns
P252(t) ==
    /\ pc[t] = "P252"
    /\ LET m == inst[frame[t].i].model
       IN  IF m.fitted /\ Len(frame[t].names) = m.n
           THEN LET features ==
                        prepare_features(ProfileValue(frame[t].profile)).value
                    x == feature_vector(frame[t].names, features)
                    p == predict_proba(m, inst[frame[t].i].scaler, x)
                IN  Step(t, [frame[t] EXCEPT !.prob = p], "P256")
           ELSE Throw(t, frame[t])
    /\ UNCHANGED << inst, file, runs, calls, lastSaved >>

\* l.256-275: the score, then one feature_importance entry per name of
\* self.feature_names with coefficients[i], then the result
P256(t) ==
    /\ pc[t] = "P256"
    /\ LET m == inst[frame[t].i].model
           names == inst[frame[t].i].feature_names
           credit_score == ScoreOf(frame[t].prob)
       IN  IF m.fitted /\ Len(names) <= m.n
           THEN Finish(t, frame[t],
                    [kind |-> "ScoreResult", credit_score |-> credit_score,
                     probability |-> frame[t].prob,
                     risk_level |-> _get_risk_level(credit_score),
                     features |-> Range(names), total_features |-> 0])
           ELSE Throw(t, frame[t])
    /\ UNCHANGED << inst, file, runs, calls, lastSaved >>

(* -------------------------- get_model_insights ------------------------- *)

CallInsights(t, overlap) ==
    /\ Begin(t, overlap)
    /\ \E i \in Instances :
          Enter(t, overlap, "get_model_insights", i, "G294", FALSE, "mapping")
    /\ UNCHANGED << inst, file, runs, lastSaved >>

\* l.294-316
G294(t) ==
    /\ pc[t] = "G294"
    /\ LET m == inst[frame[t].i].model
           names == inst[frame[t].i].feature_names
       IN  IF ~inst[frame[t].i].is_trained
           THEN ReturnNone(t, frame[t])
           ELSE IF m.fitted /\ Len(names) <= m.n
           THEN Finish(t, frame[t],
                    [NoResult EXCEPT !.kind = "ModelInsights",
                                     !.features = Range(names),
                                     !.total_features = Len(names)])
           ELSE Throw(t, frame[t])
    /\ UNCHANGED << inst, file, runs, calls, lastSaved >>

(* ------------------------------ failures ------------------------------- *)

\* the statements whose library or I/O call may fail whatever the model's
\* state: generation, split and fit (l.173-192), print (l.198-200), open
\* (l.216), pickle.dump (l.217)
MayFail == {"T173", "T188", "T192", "T195", "S216", "S217"}

\* The statement at pc[t] raises before it has changed anything.  A dump that
\* fails leaves a prefix of the stream, and every prefix reads the same way
\* (pickle.load raises), so one failure point stands for all: after the
\* classifier and the scaler have been written.
Raise(t) ==
    /\ pc[t] \in MayFail
    /\ pc[t] = "S217" => frame[t].woff = 2
    /\ Throw(t, frame[t])
    /\ UNCHANGED << inst, file, runs, calls, lastSaved >>

(* --------------------------- specifications ---------------------------- *)

Body(t) ==
    \/ T168(t) \/ T170(t) \/ T173(t) \/ T180(t) \/ T188(t) \/ T192(t)
    \/ T195(t) \/ T202(t) \/ T204(t)
    \/ S209(t) \/ S216(t) \/ S217(t)
    \/ L223(t) \/ L225(t) \/ L227(t) \/ L228(t) \/ L229(t) \/ L230(t)
    \/ P236(t) \/ P240(t) \/ P249(t) \/ P252(t) \/ P256(t)
    \/ G294(t)
    \/ Raise(t)

\* one call at a time: whose call it is makes no difference
Next ==
    \E t \in {"s1"} :
        \/ CallTrain(t, FALSE) \/ CallSave(t, FALSE) \/ CallLoad(t, FALSE)
        \/ CallPredict(t, FALSE) \/ CallInsights(t, FALSE)
        \/ Body(t)

Spec == Init /\ [][Next]_vars

\* calls of different callers on the store overlap
NextConc ==
    \E t \in Callers :
        \/ CallTrain(t, TRUE) \/ CallSave(t, TRUE) \/ CallLoad(t, TRUE)
        \/ T168(t) \/ T170(t) \/ T173(t) \/ T180(t) \/ T188(t) \/ T192(t)
        \/ T195(t) \/ T202(t) \/ T204(t)
        \/ S209(t) \/ S216(t) \/ S217(t)
        \/ L223(t) \/ L225(t) \/ L227(t) \/ L228(t) \/ L229(t) \/ L230(t)

SpecConc == Init /\ [][NextConc]_vars

\* load_model on what may be found at model_path: nothing, the artifact of
\* an earlier run, a stream cut short, a dict without one of its keys
StoresFound ==
    InitialStores
        \cup { WriteEntry(WriteEntry(Truncated, 1, TrainedEarlier, "earlier"),
                          2, TrainedEarlier, "earlier") }
        \cup { Lacking(TrainedEarlier, k) : k \in Keys }

InitLoad ==
    /\ inst = [i \in Instances |-> FreshFields]
    /\ file \in StoresFound
    /\ pc = [t \in Callers |-> "idle"]
    /\ frame = [t \in Callers |-> IdleFrame]
    /\ ret = [t \in Callers |-> NoRet]
    /\ runs = 0
    /\ calls = 0
    /\ lastSaved = NoArtifact
    /\ scored = [i \in Instances |-> Unwatched]
    /\ calc = NoCalc

NextLoad ==
    \E t \in {"s1"} :
        \/ CallLoad(t, FALSE)
        \/ L223(t) \/ L225(t) \/ L227(t) \/ L228(t) \/ L229(t) \/ L230(t)

SpecLoad == InitLoad /\ [][NextLoad]_vars

\* the calls of the scoring page (2_Credit_Scoring.py l.34-38, l.85-91,
\* l.385-402, l.534-539): train_model and predict_credit_score, of which a
\* record is kept
InitScoring ==
    /\ inst = [i \in Instances |-> FreshFields]
    /\ file \in InitialStores
    /\ pc = [t \in Callers |-> "idle"]
    /\ frame = [t \in Callers |-> IdleFrame]
    /\ ret = [t \in Callers |-> NoRet]
    /\ runs = 0
    /\ calls = 0
    /\ lastSaved = NoArtifact
    /\ scored = [i \in Instances |-> NoScore]
    /\ calc = NoCalc

NextScoring ==
    \E t \in {"s1"} :
        \/ CallTrain(t, FALSE) \/ CallPredict(t, FALSE)
        \/ T168(t) \/ T170(t) \/ T173(t) \/ T180(t) \/ T188(t) \/ T192(t)
        \/ T195(t) \/ T202(t) \/ T204(t)
        \/ S209(t) \/ S216(t) \/ S217(t)
        \/ L223(t) \/ L225(t) \/ L227(t) \/ L228(t) \/ L229(t) \/ L230(t)
        \/ P236(t) \/ P240(t) \/ P249(t) \/ P252(t) \/ P256(t)
        \/ Raise(t)

SpecScoring == InitScoring /\ [][NextScoring]_vars

(* ------------------- functions applied on their own -------------------- *)

\* the model as constructed, no file at model_path, no call running
AsConstructed ==
    /\ inst = [i \in Instances |-> FreshFields]
    /\ file = NoFile
    /\ pc = [t \in Callers |-> "idle"]
    /\ frame = [t \in Callers |-> IdleFrame]
    /\ ret = [t \in Callers |-> NoRet]
    /\ runs = 0
    /\ calls = 0
    /\ lastSaved = NoArtifact
    /\ scored = [i \in Instances |-> Unwatched]

Untouched ==
    UNCHANGED << inst, file, pc, frame, ret, runs, calls, lastSaved, scored >>

\* l.254-257 on two probabilities of [0, 1], in thousandths, the smaller first
InitScore ==
    /\ AsConstructed
    /\ \E a \in 0..1000, b \in 0..1000 :
          /\ a <= b
          /\ calc = [fn |-> "probabilities", p1 |-> a, p2 |-> b,
                     s1 |-> 0, s2 |-> 0]

ApplyScoreOf ==
    /\ calc.fn = "probabilities"
    /\ calc' = [calc EXCEPT !.fn = "scores", !.s1 = ScoreOf(calc.p1),
                            !.s2 = ScoreOf(calc.p2)]
    /\ Untouched

NextScore == ApplyScoreOf

SpecScore == InitScore /\ [][NextScore]_vars

\* _get_risk_level on an integer score of the range
InitRiskLevel ==
    /\ AsConstructed
    /\ \E s \in 300..850 : calc = [fn |-> "score", s |-> s, level |-> "-"]

Apply_get_risk_level ==
    /\ calc.fn = "score"
    /\ calc' = [calc EXCEPT !.fn = "risk_level",
                            !.level = _get_risk_level(calc.s)]
    /\ Untouched

NextRiskLevel == Apply_get_risk_level

SpecRiskLevel == InitRiskLevel /\ [][NextRiskLevel]_vars

\* the sidebar's Credit Score Ranges, top band first, and the risk levels in
\* the order _get_risk_level tests them
SidebarRanges ==
    << [label |-> "Excellent", lo |-> 740, hi |-> 850],
       [label |-> "Good", lo |-> 670, hi |-> 739],
       [label |-> "Fair", lo |-> 580, hi |-> 669],
       [label |-> "Poor", lo |-> 300, hi |-> 579] >>
LevelsInOrder ==
    << "Low Risk", "Medium-Low Risk", "Medium Risk", "High Risk" >>

(* ------------------ prepare_features applied on its own ---------------- *)

\* a key the dict does not have
Missing == [PyNone EXCEPT !.type = "missing"]
Entry(key, x) == IF x.type = "missing" THEN << >> ELSE key :> x

\* values a caller may put in a profile it builds itself
Ages == {Missing, Num(42)}
CustomerTypes == {Missing, Str("individual"), Str("business")}
Countries ==
    {Missing, PyNone, Str("Germany"), Str("France"), Str("Italy"),
     Str("Spain"), Str("Poland"), Str("Netherlands"), Str("Atlantis")}
Incomes == {Missing, PyNone, Num(0), Num(3000), Num(0 - 100)}
Expenses == {Missing, Num(2000), Num(4000)}
Balances == {Missing, Num(500)}
RiskIndicators ==
    {Missing, PyNone, EmptyDict, List(2),
     Dict([overdrafts |-> Num(3), gambling_transactions |-> Bool(TRUE)]),
     Str(RiskText), Str(RiskTextEmpty), Str(RiskTextList), Str(RiskTextNull),
     Str(RiskTextCut)}
BankStatements ==
    {Missing, PyNone, Str("n/a")}
        \cup { Dict(Entry("monthly_income", i) @@ Entry("monthly_expenses", e)
                    @@ Entry("balance", b) @@ Entry("risk_indicators", r)) :
                 i \in Incomes, e \in Expenses, b \in Balances,
                 r \in RiskIndicators }
CreditScores ==
    {Missing, PyNone, EmptyDict, Dict([score |-> Num(720)]),
     Dict([bureau_name |-> Str("SCHUFA")]), Num(720), Num(0), Str("720")}

\* profiles that are no mapping
NotMappings == {PyNone, List(0), Str("customer 7"), Num(7)}

\* the rows of one customer in the tables (database.py l.25-95): columns are
\* always present, nullable ones may hold None
CustomerRows ==
    {PyNone}
        \cup { Dict([id |-> Num(1), customer_type |-> Str(ct), country |-> c]) :
                 ct \in {"individual", "business"},
                 c \in {PyNone, Str("Germany"), Str("France"), Str("Poland")} }
CreditRows ==
    {PyNone,
     Dict([customer_id |-> Num(1), score |-> Num(720),
           bureau_name |-> Str("SCHUFA")])}
BankRows ==
    {PyNone}
        \cup { Dict([customer_id |-> Num(1), balance |-> Num(500),
                     monthly_income |-> i, monthly_expenses |-> e,
                     risk_indicators |-> r]) :
                 i \in {PyNone, Num(0), Num(3000)},
                 e \in {PyNone, Num(2000), Num(4000)},
                 r \in {PyNone, Str(RiskText), Str(RiskTextCut)} }

NoRows == [customer |-> PyNone, credit_score |-> PyNone,
           bank_statement |-> PyNone]

\* the argument of prepare_features: a profile the caller built, or the rows
\* get_customer_data will build one from
InitFeatures ==
    /\ AsConstructed
    /\ \/ \E a \in Ages, ct \in CustomerTypes, c \in Countries,
             b \in BankStatements, cs \in CreditScores :
             calc = [fn |-> "profile", origin |-> "caller", rows |-> NoRows,
                     profile |-> Dict(Entry("age", a)
                                        @@ Entry("customer_type", ct)
                                        @@ Entry("country", c)
                                        @@ Entry("bank_statement", b)
                                        @@ Entry("credit_score", cs)),
                     out |-> Raises("-"), vector |-> << >>,
                     substituted |-> {}]
       \/ \E x \in NotMappings :
             calc = [fn |-> "profile", origin |-> "caller", rows |-> NoRows,
                     profile |-> x, out |-> Raises("-"), vector |-> << >>,
                     substituted |-> {}]
       \/ \E cu \in CustomerRows, cs \in CreditRows, b \in BankRows :
             calc = [fn |-> "rows", origin |-> "get_customer_data",
                     rows |-> [customer |-> cu, credit_score |-> cs,
                               bank_statement |-> b],
                     profile |-> PyNone, out |-> Raises("-"),
                     vector |-> << >>, substituted |-> {}]

\* 2_Credit_Scoring.py l.66: customer_data = get_customer_data(customer_id)
Apply_get_customer_data ==
    /\ calc.fn = "rows"
    /\ calc' = [calc EXCEPT
                  !.fn = "profile",
                  !.profile = get_customer_data(calc.rows.customer,
                                  calc.rows.credit_score,
                                  calc.rows.bank_statement, 1)]
    /\ Untouched

\* l.240: features = self.prepare_features(customer_data)
Apply_prepare_features ==
    /\ calc.fn = "profile"
    /\ calc' = [calc EXCEPT !.fn = "features",
                            !.out = prepare_features(calc.profile)]
    /\ Untouched

\* l.243-245: one entry per name, features.get(name, 0)
FeatureVector(features, feature_names) ==
    [k \in 1..Len(feature_names) |-> Get(features, feature_names[k], Num(0))]

\* the names for which that get falls back on 0
Substituted(features, feature_names) ==
    {feature_names[k] : k \in {j \in 1..Len(feature_names) :
                                  feature_names[j] \notin DOMAIN features.items}}

\* l.243-245 with the feature_names train_model sets (l.180)
ApplyFeatureVector ==
    /\ calc.fn = "features"
    /\ calc.out.raised = "-"
    /\ calc' = [calc EXCEPT
                  !.fn = "vector",
                  !.vector = FeatureVector(calc.out.value, feature_columns),
                  !.substituted = Substituted(calc.out.value, feature_columns)]
    /\ Untouched

NextFeatures ==
    \/ Apply_get_customer_data
    \/ Apply_prepare_features
    \/ ApplyFeatureVector

SpecFeatures == InitFeatures /\ [][NextFeatures]_vars

(* ---------------- get_model_insights applied on its own ---------------- *)

\* feature_name.replace('_', ' ').title() on the column names
Title ==
    [age |-> "Age", is_business |-> "Is Business",
     monthly_income |-> "Monthly Income",
     monthly_expenses |-> "Monthly Expenses",
     current_balance |-> "Current Balance",
     expense_to_income_ratio |-> "Expense To Income Ratio",
     savings_rate |-> "Savings Rate", overdrafts |-> "Overdrafts",
     returned_payments |-> "Returned Payments",
     gambling_transactions |-> "Gambling Transactions",
     irregular_income |-> "Irregular Income",
     existing_credit_score |-> "Existing Credit Score",
     country_risk |-> "Country Risk"]

\* a slip: the sort is left out
AsCollected(entries) == entries

\* l.309: sort(key=importance, reverse=True); entries of equal importance
\* keep the order they were collected in
SortedByImportance(entries) ==
    LET n == Len(entries)
        Rank(k) ==
            1 + Cardinality(
                  {j \in 1..n :
                     \/ entries[j].importance > entries[k].importance
                     \/ /\ entries[j].importance = entries[k].importance
                        /\ j < k})
    IN  [r \in 1..n |-> entries[CHOOSE k \in 1..n : Rank(k) = r]]

NoInsights ==
    [raised |-> "-", none |-> TRUE, total_features |-> 0,
     feature_insights |-> << >>, model_type |-> "-", training_samples |-> 0]

\* l.290-316, on the fields it reads: is_trained, model.coef_[0] (in
\* hundredths), feature_names
get_model_insights(is_trained, coefficients, feature_names) ==
    IF ~is_trained THEN NoInsights
    ELSE IF Len(feature_names) > Len(coefficients)
    THEN [NoInsights EXCEPT !.raised = "IndexError", !.none = FALSE]
    ELSE
    LET collected ==
            [i \in 1..Len(feature_names) |->
                [feature |-> Title[feature_names[i]],
                 coefficient |-> coefficients[i],
                 importance |-> IF coefficients[i] < 0 THEN 0 - coefficients[i]
                                ELSE coefficients[i],
                 effect |-> IF coefficients[i] > 0 THEN "Positive"
                            ELSE "Negative"]]
    IN  [raised |-> "-", none |-> FALSE,
         total_features |-> Len(feature_names),
         feature_insights |-> SortedByImportance(collected),
         model_type |-> "Logistic Regression", training_samples |-> 1500]

\* coefficients a fit may give, in hundredths
Coefficients == {0 - 20, 0 - 7, 0, 7, 20}
FittedTail == << 3, 0 - 12, 7, 0 - 7, 1, 0 - 25, 15, 0 - 2, 0 - 9, 0 - 30,
                 0 - 4, 18, 0 - 11 >>

\* an instance as constructed, or Trained with one of the feature orders an
\* artifact may carry and a fitted classifier
InitInsights ==
    /\ AsConstructed
    /\ \/ calc = [fn |-> "model", is_trained |-> FALSE,
                   feature_names |-> << >>, coefficients |-> << >>,
                   out |-> NoInsights]
       \/ \E c \in [1..MaxVaried -> Coefficients],
             a \in {TrainedEarlier, Reordered, Shortened} :
             calc = [fn |-> "model", is_trained |-> TRUE,
                     feature_names |-> a.feature_names,
                     coefficients |->
                        [k \in 1..Len(feature_columns) |->
                            IF k <= MaxVaried THEN c[k] ELSE FittedTail[k]],
                     out |-> NoInsights]

Apply_get_model_insights ==
    /\ calc.fn = "model"
    /\ calc' = [calc EXCEPT
                  !.fn = "insights",
                  !.out = get_model_insights(calc.is_trained,
                              calc.coefficients, calc.feature_names)]
    /\ Untouched

NextInsights == Apply_get_model_insights

SpecInsights == InitInsights /\ [][NextInsights]_vars

(* ------------- the label probability of a generated example ----------- *)

\* a slip in the limits: 0 and 1 for 0.05 and 0.95
ClampedToUnit(p) ==
    LET low == IF p < 100 THEN p ELSE 100
    IN  IF low > 0 THEN low ELSE 0

\* l.141: max(0.05, min(0.95, good_credit_prob)), in hundredths
Clamped(p) ==
    LET low == IF p < 95 THEN p ELSE 95
    IN  IF low > 5 THEN low ELSE 5

\* l.121-141: 0.8, the eight adjustments one after the other, the clamp;
\* ratios, probabilities and country_risk in hundredths
good_credit_prob(ex) ==
    LET p0 == 80
        p1 == IF ex.expense_to_income_ratio > 90 THEN p0 - 30 ELSE p0
        p2 == IF ex.savings_rate < 10 THEN p1 - 20 ELSE p1
        p3 == IF ex.overdrafts > 2 THEN p2 - 30 ELSE p2
        p4 == IF ex.returned_payments > 1 THEN p3 - 40 ELSE p3
        p5 == IF ex.gambling_transactions # 0 THEN p4 - 20 ELSE p4
        p6 == IF ex.irregular_income # 0 THEN p5 - 15 ELSE p5
        p7 == IF ex.existing_credit_score < 600 THEN p6 - 30 ELSE p6
        p8 == IF ex.country_risk > 20 THEN p7 - 10 ELSE p7
    IN  Clamped(p8)

\* l.84-117: the values of one generated example that the label looks at,
\* each drawn on both sides of its threshold
InitExample ==
    /\ AsConstructed
    /\ \E r \in {50, 90, 91}, sv \in {9, 10, 50}, o \in {0, 2, 3},
          rp \in {0, 1, 2}, g \in {0, 1}, ir \in {0, 1},
          cs \in {599, 600, 700}, cr \in {5, 10, 15, 20, 25, 30} :
          calc = [fn |-> "example",
                  ex |-> [expense_to_income_ratio |-> r, savings_rate |-> sv,
                          overdrafts |-> o, returned_payments |-> rp,
                          gambling_transactions |-> g, irregular_income |-> ir,
                          existing_credit_score |-> cs, country_risk |-> cr],
                  prob |-> 0]

Apply_good_credit_prob ==
    /\ calc.fn = "example"
    /\ calc' = [calc EXCEPT !.fn = "labelled",
                            !.prob = good_credit_prob(calc.ex)]
    /\ Untouched

NextExample == Apply_good_credit_prob

SpecExample == InitExample /\ [][NextExample]_vars

(* -------------------- the random source of the generator -------------- *)

\* rows asked of one call, and draws other code made from the same source
MaxSamples == 2
MaxOtherDraws == 2

\* the processes that hold a random source of their own
Processes == {"p1", "p2"}

\* seeds a source may have been started from before the generator runs
Seeds == {7, 42}

\* the k-th number of the stream that a seed determines
Stream(seed, k) == (seed * (k + 3) + k * k) % 10

\* the call starts from whatever the source was left at
SeedLeftAlone(rng) == rng

\* l.79: np.random.seed(42)
Seeded(rng) == [seed |-> 42, pos |-> 0]

\* one np.random draw: the number, and the source moved on by one
RandomValue(rng) == Stream(rng.seed, rng.pos)

RandomNext(rng) == [rng EXCEPT !.pos = @ + 1]

\* l.82-158, one iteration: a draw (l.84), the draw that decides
\* is_business (l.87), one more draw only for a business (l.91-92), the
\* draw of the label (l.142); the number of draws depends on the draws
Example(rng) ==
    LET age == RandomValue(rng)
        r1 == RandomNext(rng)
        is_business == RandomValue(r1) % 2
        r2 == RandomNext(r1)
        factor == IF is_business = 1 THEN RandomValue(r2) ELSE 0
        r3 == IF is_business = 1 THEN RandomNext(r2) ELSE r2
        is_good_credit == RandomValue(r3) % 2
    IN  [row |-> << age, is_business, factor, is_good_credit >>,
         rng |-> RandomNext(r3)]

\* l.81-161: the rows appended one after the other
RECURSIVE Generated(_, _)
Generated(rng, n) ==
    IF n = 0 THEN [data |-> << >>, rng |-> rng]
    ELSE LET e == Example(rng)
             rest == Generated(e.rng, n - 1)
         IN  [data |-> << e.row >> \o rest.data, rng |-> rest.rng]

\* l.75-161
generate_synthetic_training_data(rng, n_samples) ==
    Generated(Seeded(rng), n_samples)

NoTable == [proc |-> "-", n |-> 0, before |-> [seed |-> 0, pos |-> 0],
            data |-> << >>]

\* each process starts its source from a seed of its own
InitSource ==
    /\ AsConstructed
    /\ \E s \in [Processes -> Seeds] :
          calc = [fn |-> "source",
                  rng |-> [p \in Processes |-> [seed |-> s[p], pos |-> 0]],
                  first |-> NoTable, second |-> NoTable]

\* other code of the process draws from np.random
OtherDraw(p) ==
    /\ calc.fn = "source"
    /\ calc.rng[p].pos < MaxOtherDraws
    /\ calc' = [calc EXCEPT !.rng[p] = RandomNext(@)]
    /\ Untouched

\* other code of the process seeds np.random
OtherSeed(p, s) ==
    /\ calc.fn = "source"
    /\ calc.rng[p].seed # s
    /\ calc.second = NoTable
    /\ calc' = [calc EXCEPT !.rng[p] = [seed |-> s, pos |-> 0]]
    /\ Untouched

\* l.75-161 called in process p; the table of the first and of the second
\* call are kept
Generate(p, n) ==
    /\ calc.fn = "source"
    /\ calc.second = NoTable
    /\ LET out == generate_synthetic_training_data(calc.rng[p], n)
           t == [proc |-> p, n |-> n, before |-> calc.rng[p],
                 data |-> out.data]
       IN  calc' = IF calc.first = NoTable
                   THEN [calc EXCEPT !.rng[p] = out.rng, !.first = t]
                   ELSE [calc EXCEPT !.rng[p] = out.rng, !.second = t]
    /\ Untouched

NextSource ==
    \E p \in Processes :
        \/ OtherDraw(p)
        \/ \E s \in Seeds : OtherSeed(p, s)
        \/ \E n \in 1..MaxSamples : Generate(p, n)

SpecSource == InitSource /\ [][NextSource]_vars

(* --------------------- the numbers of a fitting run ------------------- *)

\* fitting runs followed
MaxFits == 2

RECURSIVE SumColumn(_, _)
SumColumn(rows, c) ==
    IF rows = << >> THEN 0 ELSE Head(rows)[c] + SumColumn(Tail(rows), c)

\* l.183-185: train_test_split(..., random_state=42): the split draws from a
\* source of its own started from 42, whatever np.random stands at; one row
\* is held out
train_test_split(data, random_state) ==
    LET out == 1 + (Stream(random_state, 0) % Len(data))
    IN  [train |-> [k \in 1..(Len(data) - 1) |->
                       IF k < out THEN data[k] ELSE data[k + 1]],
         test |-> << data[out] >>]

\* l.188: StandardScaler.fit_transform: the statistics are those of the
\* training rows, whatever the scaler held before
ScalerFit(scaler, train) ==
    [fitted |-> TRUE, sum |-> SumColumn(train, 1) + SumColumn(train, 3),
     count |-> Len(train)]

\* warm_start: the fit goes on from the coefficients the object holds
ClassifierFitWarm(model, scaler, train, random_state) ==
    [fitted |-> TRUE,
     coef |-> (model.coef + SumColumn(train, 4) * (scaler.sum + 1)
                 + SumColumn(train, 2) + Stream(random_state, 1)) % 10]

\* l.22, l.192: LogisticRegression(random_state=42).fit: the coefficients
\* are those of the scaled training rows and the seed, whatever the
\* classifier held before
ClassifierFit(model, scaler, train, random_state) ==
    [fitted |-> TRUE,
     coef |-> (SumColumn(train, 4) * (scaler.sum + 1)
                 + SumColumn(train, 2) + Stream(random_state, 1)) % 10]

\* l.22-25: the fields as constructed, with their numbers
UnfittedNumbers ==
    [model |-> [fitted |-> FALSE, coef |-> 0],
     scaler |-> [fitted |-> FALSE, sum |-> 0, count |-> 0],
     feature_names |-> << >>, is_trained |-> FALSE]

\* l.173-203 for a run that fits and returns: the fields after it, and the
\* random source after it
Fitted(fields, rng) ==
    LET df == generate_synthetic_training_data(rng, MaxSamples + 1)
        split == train_test_split(df.data, 42)
        scaler == ScalerFit(fields.scaler, split.train)
        model == ClassifierFit(fields.model, scaler, split.train, 42)
    IN  [fields |-> [model |-> model, scaler |-> scaler,
                     feature_names |-> feature_columns, is_trained |-> TRUE],
         rng |-> df.rng]

NoRun == [proc |-> "-", store |-> UnfittedNumbers, fields |-> UnfittedNumbers]

\* two processes, each with its instance and its random source, and the
\* file they share, not yet written
InitFitting ==
    /\ AsConstructed
    /\ \E s \in [Processes -> Seeds] :
          calc = [fn |-> "fitting",
                  rng |-> [p \in Processes |-> [seed |-> s[p], pos |-> 0]],
                  fields |-> [p \in Processes |-> UnfittedNumbers],
                  store |-> UnfittedNumbers,
                  before |-> NoRun,
                  fits |-> 0]

\* other code of process p draws from np.random
DrawsElsewhere(p) ==
    /\ calc.fn = "fitting"
    /\ calc.rng[p].pos < MaxOtherDraws
    /\ calc' = [calc EXCEPT !.rng[p] = RandomNext(@)]
    /\ Untouched

\* other code of process p seeds np.random
SeedsElsewhere(p, s) ==
    /\ calc.fn = "fitting"
    /\ calc.rng[p].seed # s
    /\ calc' = [calc EXCEPT !.rng[p] = [seed |-> s, pos |-> 0]]
    /\ Untouched

\* train_model(retrain=True) in process p, or train_model() with no file
\* yet, runs to its end: l.173-203, the artifact written at l.203
FittingRun(p) ==
    /\ calc.fn = "fitting"
    /\ calc.fits < MaxFits
    /\ LET run == Fitted(calc.fields[p], calc.rng[p])
       IN  calc' = [calc EXCEPT
                      !.rng[p] = run.rng,
                      !.fields[p] = run.fields,
                      !.store = run.fields,
                      !.before = [proc |-> p, store |-> calc.store,
                                  fields |-> calc.fields[p]],
                      !.fits = @ + 1]
    /\ Untouched

NextFitting ==
    \E p \in Processes :
        \/ DrawsElsewhere(p)
        \/ \E s \in Seeds : SeedsElsewhere(p, s)
        \/ FittingRun(p)

SpecFitting == InitFitting /\ [][NextFitting]_vars

(* ------------------------------- claims -------------------------------- *)

Done(t, op) == pc[t] = "done" /\ ret[t].op = op
Returned(t, op) == Done(t, op) /\ ret[t].outcome = "returned"
Scored(t) ==
    Returned(t, "predict_credit_score") /\ ret[t].value.kind = "ScoreResult"

\* C1: whenever predict_credit_score returns a score, the feature names it
\* built the vector from, in their order, are the ones the scaler it applied
\* was fitted on at training time; an artifact whose feature_names differ
\* from that list never yields a score.
C1_FeatureOrderAsTrained ==
    \A t \in Callers : Scored(t) => frame[t].names = frame[t].scaled_by

\* C2: a predict_credit_score call that found the model Untrained and returns
\* a ScoreResult leaves the model Trained.
C2_ScoredImpliesTrained ==
    \A t \in Callers :
        Scored(t) /\ ~frame[t].was_trained => inst[ret[t].i].is_trained

\* C3: train_model(retrain=False) that found and loaded a persisted artifact
\* returns without having generated data or fitted, Trained, holding exactly
\* the stored classifier, scaler and feature order.
C3_LoadInsteadOfFit ==
    \A t \in Callers :
        Returned(t, "train_model") /\ ~frame[t].retrain /\ frame[t].read = "ok"
            => /\ ~frame[t].fitted
               /\ inst[ret[t].i].is_trained
               /\ inst[ret[t].i].model = frame[t].buf.model
               /\ inst[ret[t].i].scaler = frame[t].buf.scaler
               /\ inst[ret[t].i].feature_names = frame[t].buf.feature_names

\* C4: Trained is terminal: no step of any call takes an instance from
\* is_trained True to is_trained False.
C4_TrainedIsTerminal ==
    [][\A i \in Instances : inst[i].is_trained => inst'[i].is_trained]_vars

\* the artifacts that are one whole: what one fitting run produces, or what
\* an earlier process left in the store
FittedBy(r) ==
    [model |-> FittedClassifier(feature_columns, r),
     scaler |-> FittedScaler(feature_columns, r),
     feature_names |-> feature_columns, is_trained |-> TRUE]
WholeArtifacts ==
    {FittedBy(r) : r \in 1..MaxRuns} \cup {TrainedEarlier, Reordered, Shortened}

\* C5: in every state in which an instance is Trained, its classifier, scaler
\* and feature order are those of one fitting run or of one loaded artifact,
\* never parts of two.
C5_ArtifactIsOneWhole ==
    \A i \in Instances : inst[i].is_trained => inst[i] \in WholeArtifacts

\* C6: a load_model that returns after a save_model has completed leaves the
\* instance with exactly the classifier, scaler, feature order and trained
\* flag of the most recently saved artifact, whatever was saved before it.
C6_LoadYieldsLastSaved ==
    \A t \in Callers :
        Returned(t, "load_model") /\ frame[t].read = "ok" /\ lastSaved.saved
            => inst[ret[t].i] = lastSaved.art

\* C6 happens: a load returned the second of two different saved artifacts,
\* and it replaced what the instance held
C6_Witness ==
    \E t \in Callers :
        /\ Returned(t, "load_model") /\ frame[t].read = "ok"
        /\ lastSaved.saved /\ lastSaved.replaced
        /\ inst[ret[t].i] # frame[t].pre

\* feature-name list and coefficient vector of different lengths
Inconsistent(a) == Len(a.feature_names) # a.model.n

\* C7: a train_model(retrain=False) or predict_credit_score call that reads
\* an unreadable or structurally inconsistent artifact raises.
C7_CorruptArtifactRaises ==
    \A t \in Callers :
        /\ pc[t] = "done"
        /\ ret[t].op \in {"train_model", "predict_credit_score"}
        /\ \/ frame[t].read = "unreadable"
           \/ frame[t].read = "ok" /\ Inconsistent(frame[t].buf)
        => ret[t].outcome = "raised"

\* what load_model hands back when it has loaded an artifact
LoadedOutcome == [NoResult EXCEPT !.kind = "None"]

\* C8 as stated: load_model that found no artifact hands back something other
\* than what it hands back after loading one.
C8_AbsentIsDistinguished ==
    \A t \in Callers :
        Returned(t, "load_model") /\ frame[t].read = "absent"
            => ret[t].value # LoadedOutcome

\* C8 amended: load_model returns None whether or not it loaded an artifact,
\* and when there is no artifact the instance's model, scaler, feature_names
\* and is_trained are what they were before the call.
C8_AbsentLoadChangesNothing ==
    \A t \in Callers :
        Returned(t, "load_model")
            => /\ ret[t].value = LoadedOutcome
               /\ frame[t].read = "absent" => inst[ret[t].i] = frame[t].pre

\* C8 happens: load_model on a Trained instance finds no file
C8_Witness ==
    \E t \in Callers :
        /\ Returned(t, "load_model") /\ frame[t].read = "absent"
        /\ frame[t].pre.is_trained

RiskLabels == {"Low Risk", "Medium-Low Risk", "Medium Risk", "High Risk"}

\* C9: every predict_credit_score call raises or returns a ScoreResult whose
\* score is in 300..850, whose probability is in [0, 1], whose risk level is
\* the band of that score, and which has a feature_importance entry for every
\* feature of the model's order and of the training columns.
C9_AllOrNothing ==
    \A t \in Callers :
        Done(t, "predict_credit_score") /\ ret[t].outcome # "raised"
            => LET v == ret[t].value
               IN  /\ ret[t].outcome = "returned"
                   /\ v.kind = "ScoreResult"
                   /\ v.credit_score \in 300..850
                   /\ v.probability \in 0..1000
                   /\ v.risk_level \in RiskLabels
                   /\ (v.risk_level = "Low Risk") = (v.credit_score >= 740)
                   /\ (v.risk_level = "Medium-Low Risk")
                        = (v.credit_score \in 670..739)
                   /\ (v.risk_level = "Medium Risk")
                        = (v.credit_score \in 580..669)
                   /\ (v.risk_level = "High Risk") = (v.credit_score <= 579)
                   /\ v.features = Range(inst[ret[t].i].feature_names)
                   /\ Range(feature_columns) \subseteq v.features

\* C9 happens: a score at the top of the range is returned
C9_Witness ==
    \E t \in Callers :
        Scored(t) /\ ret[t].value.credit_score = 850
                  /\ ret[t].value.risk_level = "Low Risk"

\* C10: no load_model reads a torn file: one that is not whole, or whose
\* entries were written by different writers.
C10_NoTornRead ==
    \A t \in Callers :
        /\ frame[t].read # "unreadable"
        /\ frame[t].read = "ok"
              => \A j, k \in Keys : frame[t].read_by[j] = frame[t].read_by[k]

\* C11: for every probability p in [0, 1] the score round(300 + p * 550) is
\* an integer from 300 to 850, and of two probabilities the smaller never has
\* the greater score.
C11_ScoreRangeAndMonotone ==
    calc.fn = "scores"
        => /\ calc.s1 \in 300..850
           /\ calc.s2 \in 300..850
           /\ calc.p1 <= calc.p2 => calc.s1 <= calc.s2

\* C11 happens: a tie (305.5) and the top of the range have been scored, and
\* the ends of the range are reached
C11_Witness ==
    /\ calc.fn = "scores"
    /\ calc.p1 = 10 /\ calc.s1 = 306
    /\ calc.p2 = 1000 /\ calc.s2 = 850
    /\ ScoreOf(0) = 300

\* C12: for every integer score s from 300 to 850, _get_risk_level(s) is
\* 'Low Risk' iff s >= 740, 'Medium-Low Risk' iff 670 <= s <= 739, 'Medium
\* Risk' iff 580 <= s <= 669 and 'High Risk' iff s <= 579; each score falls in
\* exactly one band, and it is the band of the sidebar range that holds s.
C12_RiskBands ==
    calc.fn = "risk_level"
        => /\ (calc.level = "Low Risk") = (calc.s >= 740)
           /\ (calc.level = "Medium-Low Risk") = (calc.s \in 670..739)
           /\ (calc.level = "Medium Risk") = (calc.s \in 580..669)
           /\ (calc.level = "High Risk") = (calc.s <= 579)
           /\ Cardinality({k \in 1..Len(LevelsInOrder) :
                              calc.level = LevelsInOrder[k]}) = 1
           /\ \A k \in 1..Len(SidebarRanges) :
                  (calc.s \in SidebarRanges[k].lo..SidebarRanges[k].hi)
                      = (calc.level = LevelsInOrder[k])

\* C12 happens: a score on a threshold has been given its level
C12_Witness ==
    /\ calc.fn = "risk_level"
    /\ calc.s = 740
    /\ calc.level = "Low Risk"

\* prepare_features has been applied to calc.profile, and calc.out is how
\* it ended
Prepared == calc.fn \in {"features", "vector"}

\* an optional entry is absent: the key is missing, or its value is None
Absent(d, key) == Get(d, key, PyNone).type = "None"
IsNumber(x) == x.type = "number"

\* the nested record under key is absent or is a mapping
AbsentOrDict(d, key) == Absent(d, key) \/ IsDict(d.items[key])

\* risk indicators that are absent, a mapping, or the JSON text of a mapping
RiskWellFormed(bank) ==
    \/ AbsentOrDict(bank, "risk_indicators")
    \/ /\ bank.items["risk_indicators"].type = "str"
       /\ json_loads(bank.items["risk_indicators"].text).raised = "-"
       /\ IsDict(json_loads(bank.items["risk_indicators"].text).value)

\* a bank statement whose income and expenses, where given, are numbers
AmountsAreNumbers(bank) ==
    /\ IsNumber(Get(bank, "monthly_income", Num(0)))
    /\ IsNumber(Get(bank, "monthly_expenses", Num(0)))

\* a mapping whose optional nested records are each absent or well formed
OptionalsAbsentOrWellFormed(profile) ==
    /\ IsDict(profile)
    /\ AbsentOrDict(profile, "bank_statement")
    /\ ~Absent(profile, "bank_statement")
          => /\ RiskWellFormed(profile.items["bank_statement"])
             /\ AmountsAreNumbers(profile.items["bank_statement"])
    /\ AbsentOrDict(profile, "credit_score")

\* C13: for every profile that is a mapping, also one whose bank statement,
\* risk indicators and credit record are absent (key missing or value None),
\* prepare_features returns the 13 fixed feature names, with age 35 when no
\* age is given, income, expenses and balance 0 when there is no bank
\* statement, the four risk features 0 when there are no risk indicators, and
\* existing_credit_score 650 when there is no credit record.
C13_FeatureCompleteness ==
    Prepared /\ OptionalsAbsentOrWellFormed(calc.profile)
        => /\ calc.out.raised = "-"
           /\ DOMAIN calc.out.value.items = PreparedNames
           /\ LET f == calc.out.value.items
                  bank == Get(calc.profile, "bank_statement", PyNone)
              IN  /\ "age" \notin DOMAIN calc.profile.items => Eq(f.age, Num(35))
                  /\ Absent(calc.profile, "bank_statement")
                        => /\ Eq(f.monthly_income, Num(0))
                           /\ Eq(f.monthly_expenses, Num(0))
                           /\ Eq(f.current_balance, Num(0))
                  /\ \/ Absent(calc.profile, "bank_statement")
                     \/ Absent(bank, "risk_indicators")
                        => /\ Eq(f.overdrafts, Num(0))
                           /\ Eq(f.returned_payments, Num(0))
                           /\ Eq(f.gambling_transactions, Num(0))
                           /\ Eq(f.irregular_income, Num(0))
                  /\ Absent(calc.profile, "credit_score")
                        => Eq(f.existing_credit_score, Num(650))

\* a dict without one of its keys
Without(d, key) == Dict([k \in DOMAIN d.items \ {key} |-> d.items[k]])

\* risk indicators that are there but are neither a mapping nor the JSON text
\* of one (None included)
RiskMalformed(bank) ==
    /\ "risk_indicators" \in DOMAIN bank.items
    /\ ~IsDict(bank.items["risk_indicators"])
    /\ ~(bank.items["risk_indicators"].type = "str" /\ RiskWellFormed(bank))

\* a nested record that is there, is not None and is not a mapping
NotAMapping(d, key) == ~Absent(d, key) /\ ~IsDict(d.items[key])

\* the profile has a malformed nested field
HasMalformed(profile) ==
    \/ NotAMapping(profile, "bank_statement")
    \/ NotAMapping(profile, "credit_score")
    \/ /\ "bank_statement" \in DOMAIN profile.items
       /\ IsDict(profile.items["bank_statement"])
       /\ RiskMalformed(profile.items["bank_statement"])

\* the profile with each malformed nested field taken out
WithoutMalformed(profile) ==
    LET p1 == IF AbsentOrDict(profile, "credit_score") THEN profile
              ELSE Without(profile, "credit_score")
        p2 == IF "bank_statement" \in DOMAIN p1.items
                    /\ ~IsDict(p1.items["bank_statement"])
              THEN Without(p1, "bank_statement") ELSE p1
    IN  IF "bank_statement" \in DOMAIN p2.items
            /\ IsDict(p2.items["bank_statement"])
            /\ RiskMalformed(p2.items["bank_statement"])
        THEN Dict([p2.items EXCEPT !["bank_statement"] =
                        Without(p2.items["bank_statement"], "risk_indicators")])
        ELSE p2

\* C14: when the profile is a mapping and a nested field is malformed
\* (bank_statement or credit_score not a mapping; risk_indicators None, a
\* string that is no valid JSON, or one that does not decode to a mapping),
\* prepare_features does not raise and gives the features it gives when that
\* field is absent.
C14_MalformedTreatedAsAbsent ==
    /\ Prepared
    /\ IsDict(calc.profile)
    /\ HasMalformed(calc.profile)
    /\ \/ "bank_statement" \notin DOMAIN calc.profile.items
       \/ ~IsDict(calc.profile.items["bank_statement"])
       \/ AmountsAreNumbers(calc.profile.items["bank_statement"])
    => LET asAbsent == prepare_features(WithoutMalformed(calc.profile))
       IN  /\ calc.out.raised = "-"
           /\ asAbsent.raised = "-"
           /\ \A n \in PreparedNames :
                  Eq(calc.out.value.items[n], asAbsent.value.items[n])

\* C15: whenever prepare_features gives features, if monthly_income > 0 then
\* expense_to_income_ratio is monthly_expenses / monthly_income and
\* savings_rate is (monthly_income - monthly_expenses) / monthly_income; if
\* monthly_income is 0 or negative then they are 1.0 and 0.0 whatever the
\* expenses are; and no profile makes prepare_features divide by zero.
C15_RatiosAndFallback ==
    Prepared
        => /\ calc.out.raised # "ZeroDivisionError"
           /\ calc.out.raised = "-"
                => LET f == calc.out.value.items
                       income == f.monthly_income.num
                       expenses == f.monthly_expenses.num
                   IN  /\ IsNumber(f.monthly_income)
                       /\ income > 0
                            => /\ IsNumber(f.monthly_expenses)
                               /\ f.expense_to_income_ratio.type = "quotient"
                               /\ f.expense_to_income_ratio.den # 0
                               /\ f.expense_to_income_ratio.num * income
                                    = expenses * f.expense_to_income_ratio.den
                               /\ f.savings_rate.type = "quotient"
                               /\ f.savings_rate.den # 0
                               /\ f.savings_rate.num * income
                                    = (income - expenses) * f.savings_rate.den
                       /\ income <= 0
                            => /\ f.expense_to_income_ratio = Num(1)
                               /\ f.savings_rate = Num(0)

\* C15 happens: features were given for an income of 0 with expenses of 2000
C15_Witness ==
    /\ Prepared
    /\ calc.out.raised = "-"
    /\ calc.out.value.items.monthly_income = Num(0)
    /\ calc.out.value.items.monthly_expenses = Num(2000)
    /\ calc.out.value.items.expense_to_income_ratio = Num(1)

\* the customer's kind: the customer_type of the customers row the profile
\* was built from, or the customer_type the caller put in the profile
CustomerKind ==
    IF calc.origin = "get_customer_data"
    THEN Get(calc.rows.customer, "customer_type", PyNone)
    ELSE Get(calc.profile, "customer_type", PyNone)

\* where a column stands in the vector
ColumnOf(name) ==
    CHOOSE k \in 1..Len(feature_columns) : feature_columns[k] = name

\* C16: the is_business feature is 1 if the customer's kind is business and 0
\* otherwise, also for the profile get_customer_data returns for a customer
\* whose customer_type is 'business', and the vector that is scored carries
\* that value.
C16_IsBusinessReflectsKind ==
    Prepared /\ calc.out.raised = "-"
        => /\ calc.out.value.items.is_business
                = Num(IF CustomerKind = Str("business") THEN 1 ELSE 0)
           /\ calc.fn = "vector"
                => calc.vector[ColumnOf("is_business")]
                        = Num(IF CustomerKind = Str("business") THEN 1 ELSE 0)

\* the customer's country: the country of the customers row the profile was
\* built from, or the country the caller put in the profile; None when none
CustomerCountry ==
    IF calc.origin = "get_customer_data"
    THEN Get(calc.rows.customer, "country", PyNone)
    ELSE Get(calc.profile, "country", PyNone)

\* C17: country_risk is the weight of the customer's country when it is one
\* of the six of the table (Germany 0.1, France 0.15, Italy 0.2, Spain 0.25,
\* Poland 0.3, Netherlands 0.05) and 0.2 when it is not, or when there is no
\* country; it always lies in [0, 1].
C17_CountryRiskLookup ==
    Prepared /\ calc.out.raised = "-"
        => LET risk == calc.out.value.items.country_risk
               country == CustomerCountry
           IN  /\ IsNumber(risk)
               /\ risk.num \in 0..100
               /\ country.type = "str" /\ country.text = "Germany"
                    => risk.num = 10
               /\ country.type = "str" /\ country.text = "France"
                    => risk.num = 15
               /\ country.type = "str" /\ country.text = "Italy"
                    => risk.num = 20
               /\ country.type = "str" /\ country.text = "Spain"
                    => risk.num = 25
               /\ country.type = "str" /\ country.text = "Poland"
                    => risk.num = 30
               /\ country.type = "str" /\ country.text = "Netherlands"
                    => risk.num = 5
               /\ ~(country.type = "str"
                        /\ country.text \in {"Germany", "France", "Italy",
                                 "Spain", "Poland", "Netherlands"})
                    => risk.num = 20

\* C18: predict_credit_score called with a profile that is no mapping
\* raises: it never gets past prepare_features to build a vector from
\* substitute values, and it never returns a ScoreResult.
C18_NonMappingRaises ==
    \A t \in Callers :
        frame[t].op = "predict_credit_score" /\ ~IsMapping(frame[t].profile)
            => /\ pc[t] \notin {"P249", "P252", "P256"}
               /\ frame[t].names = << >>
               /\ pc[t] = "done"
                    => /\ ret[t].outcome = "raised"
                       /\ ret[t].value = NoResult

\* C18 happens: a Trained model was asked to score a profile that is no
\* mapping, and the call raised
C18_Witness ==
    \E t \in Callers :
        /\ Done(t, "predict_credit_score")
        /\ ~IsMapping(frame[t].profile)
        /\ frame[t].was_trained
        /\ inst[ret[t].i].is_trained
        /\ ret[t].outcome = "raised"

\* C19: the names prepare_features produces are the 13 non-label columns of
\* the generated training table, so with the feature_names train_model sets
\* every name is found in the prepared features and the substitute 0 of
\* features.get(name, 0) is never used.
C19_SharedFeatureSet ==
    Prepared /\ calc.out.raised = "-"
        => /\ DOMAIN calc.out.value.items = Range(feature_columns)
           /\ Cardinality(DOMAIN calc.out.value.items) = 13
           /\ calc.fn = "vector"
                => /\ calc.substituted = {}
                   /\ Len(calc.vector) = 13
                   /\ \A k \in 1..Len(feature_columns) :
                        calc.vector[k]
                            = calc.out.value.items[feature_columns[k]]

\* C19 happens: the vector was built from the features of a profile that left
\* every optional entry out, so the features themselves hold zeros
C19_Witness ==
    /\ calc.fn = "vector"
    /\ calc.profile = EmptyDict
    /\ calc.vector[ColumnOf("monthly_income")] = Num(0)
    /\ calc.substituted = {}

\* C20: get_model_insights on a Trained model returns exactly one entry per
\* feature of feature_names, each with that feature's coefficient, importance
\* = |coefficient| and effect 'Positive' when the coefficient is positive and
\* 'Negative' otherwise, the entries in order of non-increasing importance,
\* and total_features equal to the number of feature names.
C20_InsightsEntries ==
    calc.fn = "insights" /\ calc.is_trained
        => LET e == calc.out.feature_insights
               names == calc.feature_names
               coef == calc.coefficients
           IN  /\ calc.out.raised = "-"
               /\ ~calc.out.none
               /\ Len(e) = Len(names)
               /\ calc.out.total_features = Len(names)
               /\ \A k \in 1..Len(names) :
                     Cardinality({r \in 1..Len(e) :
                                    e[r].feature = Title[names[k]]}) = 1
               /\ \A r \in 1..Len(e), k \in 1..Len(names) :
                     e[r].feature = Title[names[k]]
                        => /\ e[r].coefficient = coef[k]
                           /\ e[r].importance
                                = IF coef[k] < 0 THEN 0 - coef[k] ELSE coef[k]
                           /\ e[r].effect = IF coef[k] > 0 THEN "Positive"
                                            ELSE "Negative"
               /\ \A r \in 1..(Len(e) - 1) :
                     e[r].importance >= e[r + 1].importance

\* C20 happens: insights were returned for 13 features, the sort moved another
\* entry to the front, and a coefficient of 0 is reported as 'Negative'
C20_Witness ==
    /\ calc.fn = "insights" /\ calc.is_trained
    /\ Len(calc.out.feature_insights) = Len(feature_columns)
    /\ calc.out.feature_insights[1].feature # Title[calc.feature_names[1]]
    /\ \E r \in 1..Len(calc.out.feature_insights) :
          /\ calc.out.feature_insights[r].coefficient = 0
          /\ calc.out.feature_insights[r].effect = "Negative"

\* a train_model call has returned, or a predict_credit_score call has
\* returned a score
Succeeded(t) == Returned(t, "train_model") \/ Scored(t)

\* C21: get_model_insights returns None exactly when it finds the model
\* Untrained, and then it has started no fitting run, changed no field and
\* not raised; and called right after a train_model or predict_credit_score
\* call that succeeded on the same instance, it finds the model Trained, so
\* it returns a present ModelInsights.
C21_InsightsAbsentIffUntrained ==
    /\ [](\A t \in Callers :
            Done(t, "get_model_insights")
                => /\ ~frame[t].was_trained
                        => /\ ret[t].outcome = "returned"
                           /\ ret[t].value.kind = "None"
                           /\ ~frame[t].fitted
                           /\ inst[ret[t].i] = frame[t].pre
                   /\ frame[t].was_trained
                        => /\ ret[t].outcome = "returned"
                           /\ ret[t].value.kind = "ModelInsights")
    /\ [][\A t \in Callers :
            Succeeded(t) /\ pc'[t] = "G294" /\ frame'[t].i = ret[t].i
                => frame'[t].was_trained]_vars

\* the penalty of each condition that holds for an example, in hundredths
Penalties(ex) ==
    << IF ex.expense_to_income_ratio > 90 THEN 30 ELSE 0,
       IF ex.savings_rate < 10 THEN 20 ELSE 0,
       IF ex.overdrafts > 2 THEN 30 ELSE 0,
       IF ex.returned_payments > 1 THEN 40 ELSE 0,
       IF ex.gambling_transactions = 1 THEN 20 ELSE 0,
       IF ex.irregular_income = 1 THEN 15 ELSE 0,
       IF ex.existing_credit_score < 600 THEN 30 ELSE 0,
       IF ex.country_risk > 20 THEN 10 ELSE 0 >>

RECURSIVE SumOf(_)
SumOf(q) == IF q = << >> THEN 0 ELSE Head(q) + SumOf(Tail(q))

\* C22: the good-credit probability of every generated example is 0.8 minus
\* the sum of the penalties whose conditions hold, brought into [0.05, 0.95];
\* it lies in [0.05, 0.95] for every combination of the eight conditions.
C22_LabelProbability ==
    calc.fn = "labelled"
        => LET raw == 80 - SumOf(Penalties(calc.ex))
           IN  /\ calc.prob \in 5..95
               /\ raw \in 5..95 => calc.prob = raw
               /\ raw < 5 => calc.prob = 5
               /\ raw > 95 => calc.prob = 95

\* C22 happens: all eight conditions hold and the lower limit applies
C22_Witness ==
    /\ calc.fn = "labelled"
    /\ SumOf(Penalties(calc.ex)) = 195
    /\ calc.prob = 5

\* C23: two calls of generate_synthetic_training_data with the same n return
\* the same table, in one process or in two, whatever was drawn from or
\* seeded into the random source before either call.
C23_Reproducible ==
    (calc.fn = "source" /\ calc.second # NoTable /\ calc.first.n = calc.second.n)
        => calc.first.data = calc.second.data

\* two tables of as many rows as the bound allows, from two processes whose
\* sources stood at different seeds and positions when the calls began
C23_Witness ==
    /\ calc.fn = "source"
    /\ calc.second # NoTable
    /\ calc.first.n = MaxSamples
    /\ calc.second.n = MaxSamples
    /\ calc.first.proc # calc.second.proc
    /\ calc.first.before.seed # calc.second.before.seed
    /\ calc.first.before.pos # calc.second.before.pos
    /\ calc.first.data = calc.second.data

\* the statements of train_model up to the end of the evaluation (l.168-200)
BeforePersist == {"T168", "T173", "T180", "T188", "T192", "T195"}

\* C24: in train_model no statement up to the end of the evaluation changes
\* the store or is_trained, so a call that raises in generation, split,
\* scaling, fitting or evaluation leaves the store as it was and has not set
\* is_trained; the flag is set only after the evaluation (l.202) and the
\* store is written only after that (l.216-217).
C24_PersistLast ==
    [][\A t \in Callers :
          /\ pc[t] \in BeforePersist =>
                /\ file' = file
                /\ inst'[frame[t].i].is_trained = frame[t].pre.is_trained
                /\ pc'[t] = "done" => ret'[t].outcome = "raised"
          /\ pc'[t] = "T202" => pc[t] = "T195"
          /\ (file' # file /\ frame[t].fitted) =>
                /\ pc[t] \in {"S216", "S217"}
                /\ inst[frame[t].i].is_trained
                /\ inst[frame[t].i].model.fitted
                /\ inst[frame[t].i].scaler.fitted
      ]_vars

\* a forced retrain that raised after the scaler was refitted: the artifact
\* of the earlier run is still whole in the store, the instance is not trained
C24_Witness ==
    /\ pc["s1"] = "done"
    /\ ret["s1"].op = "train_model"
    /\ ret["s1"].outcome = "raised"
    /\ frame["s1"].fitted
    /\ inst[ret["s1"].i].scaler.fitted
    /\ ~inst[ret["s1"].i].is_trained
    /\ file = FileOf(TrainedEarlier, "earlier")

\* the call of t is at a statement of save_model, reached from an explicit
\* save_model or from a fitting run: one started with retrain, or one that
\* found no file at model_path and so creates it at l.216
Writes(t) ==
    /\ pc[t] \in {"S216", "S217"}
    /\ \/ frame[t].op = "save_model"
       \/ /\ frame[t].fitted
          /\ pc[t] = "S216" => (frame[t].retrain \/ ~file.exists)

\* the call of t is one of those said to leave the store alone
ReadsOnly(t) ==
    /\ pc[t] \notin {"idle", "done"}
    /\ \/ frame[t].op \in {"load_model", "get_model_insights"}
       \/ frame[t].op = "train_model" /\ ~frame[t].retrain /\ ~frame[t].fitted
       \/ frame[t].op = "predict_credit_score" /\ frame[t].was_trained

\* C25: the store changes only in save_model, called by itself or by a
\* fitting run; load_model, get_model_insights, predict_credit_score on a
\* trained model and train_model(retrain=False) that finds a file (it takes
\* the load branch and never fits) leave the store as it is.
C25_StoreFrame ==
    [][/\ file' # file => \E t \in Callers : Writes(t)
       /\ \A t \in Callers :
             /\ ReadsOnly(t) => file' = file
             /\ (pc[t] = "T168" /\ file.exists /\ ~frame[t].retrain)
                   => (pc'[t] = "L223" /\ ~frame'[t].fitted)
      ]_vars

\* train_model(retrain=False) took the load branch and returned: the
\* artifact an earlier run left is still the content of the store
C25_Witness ==
    /\ pc["s1"] = "done"
    /\ ret["s1"].op = "train_model"
    /\ ret["s1"].outcome = "returned"
    /\ frame["s1"].read = "ok"
    /\ ~frame["s1"].fitted
    /\ file = FileOf(Reordered, "earlier")

\* C26: no statement of predict_credit_score on a trained model, and
\* prepare_features in any state, assigns a field of the instance or changes
\* the profile it was given; so a ScoreResult returned for a profile equals
\* the first one returned for that profile since the last training call,
\* whichever other profiles were scored in between.
C26_PredictionReadOnly ==
    /\ [](\A t \in Callers :
            (Scored(t) /\ scored[ret[t].i].profile = frame[t].profile)
                => ret[t].value = scored[ret[t].i].value)
    /\ [][\A t \in Callers :
            (/\ frame[t].op = "predict_credit_score"
             /\ pc[t] \notin {"idle", "done"}
             /\ frame[t].was_trained \/ pc[t] = "P240")
                => (inst' = inst /\ frame'[t].profile = frame[t].profile)
         ]_vars

\* a profile is scored, then another one, then the first again, with no
\* training call in between
C26_Witness ==
    \E t \in Callers :
        /\ Scored(t)
        /\ scored[ret[t].i].profile = frame[t].profile
        /\ scored[ret[t].i].again
        /\ scored[ret[t].i].between # {}

\* C27: a fitting run that follows an earlier fitting run writes the artifact
\* that was in the store, and leaves an instance that an earlier run had
\* fitted with the classifier parameters, scaler parameters and feature order
\* it had, whatever was drawn from or seeded into the random source between.
C27_RetrainIdempotent ==
    (calc.fn = "fitting" /\ calc.fits >= 2)
        => /\ calc.store = calc.before.store
           /\ calc.store.is_trained
           /\ calc.before.fields.is_trained
                 => calc.fields[calc.before.proc] = calc.before.fields

\* an instance that was fitted has been retrained, with the source of its
\* process reseeded since its first fit
C27_Witness ==
    /\ calc.fn = "fitting"
    /\ calc.fits = 2
    /\ calc.before.fields.is_trained
    /\ calc.before.fields.model.coef # 0
    /\ calc.fields[calc.before.proc] = calc.before.fields
    /\ calc.store = calc.before.store

\* C28: a load_model call that raised has left the classifier, the scaler,
\* feature_names and is_trained of its instance as they were when it began.
C28_FailedLoadAtomic ==
    \A t \in Callers :
        (Done(t, "load_model") /\ ret[t].outcome = "raised")
            => inst[ret[t].i] = frame[t].pre

\* C29: what train_model hands to pickle.dump, and what is in the store when
\* a fitting train_model has returned, has is_trained True and feature_names
\* equal to the 13 column names of the generated table in their order.
C29_PersistedIsTrained ==
    \A t \in Callers :
        /\ (pc[t] \in {"S216", "S217"} /\ frame[t].op # "save_model")
              => /\ frame[t].wdata.is_trained
                 /\ frame[t].wdata.feature_names = feature_columns
                 /\ Len(frame[t].wdata.feature_names) = 13
        /\ (Returned(t, "train_model") /\ frame[t].fitted)
              => /\ Readable(file)
                 /\ file.art.is_trained
                 /\ file.art.feature_names = feature_columns

\* a fitting train_model has returned over an artifact that listed the
\* names in another order: the store now holds the canonical list
C29_Witness ==
    /\ Returned("s1", "train_model")
    /\ frame["s1"].fitted
    /\ frame["s1"].retrain
    /\ frame["s1"].pre.feature_names = Reordered.feature_names
    /\ file.art.is_trained
    /\ file.art.feature_names = feature_columns

\* C30: when train_model has returned, having loaded or having fitted, the
\* classifier, scaler, feature_names and is_trained of its instance are the
\* four entries of the artifact in the store.
C30_MemoryStoreAgree ==
    \A t \in Callers :
        Returned(t, "train_model")
            => /\ Readable(file)
               /\ inst[ret[t].i] = file.art

\* train_model has returned after loading an artifact flagged untrained:
\* the instance holds that flag and the rest of the stored artifact
C30_Witness ==
    /\ Returned("s1", "train_model")
    /\ ~frame["s1"].fitted
    /\ frame["s1"].read = "ok"
    /\ ~inst[ret["s1"].i].is_trained
    /\ inst[ret["s1"].i] = file.art

====
